---- MODULE Spec2Model ----
(***************************************************************************)
(* Model of backend/server.py of the Thrapy API: the five collections the  *)
(* handlers read and write (users, therapists, sessions, payments,         *)
(* chat_history), and the handlers register, register_therapist,           *)
(* create_session and ai_chat, split at their await points so that         *)
(* concurrent requests interleave the way the asyncio event loop lets      *)
(* them.  Session costs and payment splits are Python floats: they are     *)
(* computed here in IEEE-754 binary64 (round to nearest, ties to even) on  *)
(* arbitrary-precision naturals, because TLC's integers are 32 bits wide.  *)
(***************************************************************************)
EXTENDS Integers, Sequences, FiniteSets, TLC

(***************************************************************************)
(* Arbitrary-precision naturals: little-endian sequences of limbs below    *)
(* Base, with no most-significant zero limb (zero is << >>).               *)
(***************************************************************************)
Base == 2 ^ 14

RECURSIVE IntBitLen(_)
IntBitLen(n) == IF n = 0 THEN 0 ELSE 1 + IntBitLen(n \div 2)

LimbBits == IntBitLen(Base) - 1

RECURSIVE BigNorm(_)
BigNorm(a) ==
    IF a = << >> THEN << >>
    ELSE IF a[Len(a)] = 0 THEN BigNorm(SubSeq(a, 1, Len(a) - 1))
    ELSE a

RECURSIVE BigFromInt(_)
BigFromInt(n) ==
    IF n = 0 THEN << >> ELSE <<n % Base>> \o BigFromInt(n \div Base)

Limb(a, i) == IF i <= Len(a) THEN a[i] ELSE 0

MaxOf(x, y) == IF x >= y THEN x ELSE y

RECURSIVE BigAddFrom(_, _, _, _)
BigAddFrom(a, b, i, carry) ==
    IF i > MaxOf(Len(a), Len(b))
    THEN (IF carry = 0 THEN << >> ELSE <<carry>>)
    ELSE LET t == Limb(a, i) + Limb(b, i) + carry
         IN  <<t % Base>> \o BigAddFrom(a, b, i + 1, t \div Base)

BigAdd(a, b) == BigAddFrom(a, b, 1, 0)

\* -1, 0 or 1 as a < b, a = b, a > b.
RECURSIVE BigCmpFrom(_, _, _)
BigCmpFrom(a, b, i) ==
    IF i = 0 THEN 0
    ELSE IF Limb(a, i) < Limb(b, i) THEN -1
    ELSE IF Limb(a, i) > Limb(b, i) THEN 1
    ELSE BigCmpFrom(a, b, i - 1)

BigCmp(a, b) == BigCmpFrom(a, b, MaxOf(Len(a), Len(b)))

\* a - b for a >= b.
RECURSIVE BigSubFrom(_, _, _, _)
BigSubFrom(a, b, i, borrow) ==
    IF i > Len(a) THEN << >>
    ELSE LET t == Limb(a, i) - Limb(b, i) - borrow
         IN  IF t < 0
             THEN <<t + Base>> \o BigSubFrom(a, b, i + 1, 1)
             ELSE <<t>> \o BigSubFrom(a, b, i + 1, 0)

BigSub(a, b) == BigNorm(BigSubFrom(a, b, 1, 0))

\* a * k for 0 <= k <= Base.
RECURSIVE BigMulSmallFrom(_, _, _, _)
BigMulSmallFrom(a, k, i, carry) ==
    IF i > Len(a)
    THEN (IF carry = 0 THEN << >> ELSE <<carry>>)
    ELSE LET t == a[i] * k + carry
         IN  <<t % Base>> \o BigMulSmallFrom(a, k, i + 1, t \div Base)

BigMulSmall(a, k) == BigNorm(BigMulSmallFrom(a, k, 1, 0))

Zeros(n) == [i \in 1..n |-> 0]

BigShlLimbs(a, n) == IF a = << >> THEN << >> ELSE Zeros(n) \o a

RECURSIVE BigMulFrom(_, _, _)
BigMulFrom(a, b, i) ==
    IF i > Len(b) THEN << >>
    ELSE BigAdd(BigShlLimbs(BigMulSmall(a, b[i]), i - 1), BigMulFrom(a, b, i + 1))

BigMul(a, b) == BigMulFrom(a, b, 1)

\* floor(a / k) and a mod k for 0 < k <= Base, from the most significant limb.
RECURSIVE BigDivSmallFrom(_, _, _, _)
BigDivSmallFrom(a, k, i, rem) ==
    IF i = 0 THEN [q |-> << >>, r |-> rem]
    ELSE LET t    == rem * Base + a[i]
             rest == BigDivSmallFrom(a, k, i - 1, t % k)
         IN  [q |-> rest.q \o <<t \div k>>, r |-> rest.r]

BigDivSmall(a, k) ==
    LET d == BigDivSmallFrom(a, k, Len(a), 0)
    IN  [q |-> BigNorm(d.q), r |-> d.r]

BigShl(a, n) == BigShlLimbs(BigMulSmall(a, 2 ^ (n % LimbBits)), n \div LimbBits)

BigDropLimbs(a, n) == IF n >= Len(a) THEN << >> ELSE SubSeq(a, n + 1, Len(a))

\* floor(a / 2^n).
BigShr(a, n) == BigDivSmall(BigDropLimbs(a, n \div LimbBits), 2 ^ (n % LimbBits)).q

BigBitLen(a) ==
    IF a = << >> THEN 0 ELSE LimbBits * (Len(a) - 1) + IntBitLen(a[Len(a)])

BigIsOdd(a) == a # << >> /\ a[1] % 2 = 1

RECURSIVE IntTrailingZeros(_)
IntTrailingZeros(n) == IF n % 2 = 1 THEN 0 ELSE 1 + IntTrailingZeros(n \div 2)

\* The number of trailing zero bits of a # 0.
RECURSIVE BigTrailingZeros(_, _)
BigTrailingZeros(a, i) ==
    IF a[i] = 0 THEN LimbBits + BigTrailingZeros(a, i + 1)
    ELSE IntTrailingZeros(a[i])

(***************************************************************************)
(* Python floats (IEEE-754 binary64).  A float is [neg, m, e] standing for *)
(* (-1)^neg * m * 2^e with m a natural below 2^MantBits that is odd, or    *)
(* zero with e = 0: one record per value, so record equality is ==.  The   *)
(* sign of zero is dropped (-0.0 == 0.0 in Python) and the exponent is     *)
(* unbounded: the amounts of the model stay far from overflow and from     *)
(* the subnormal range.                                                    *)
(***************************************************************************)
MantBits == 53

FZero == [neg |-> FALSE, m |-> << >>, e |-> 0]

\* The value (-1)^neg * n * 2^e, n of any size, rounded to the nearest float,
\* ties to the even mantissa.
FRound(neg, n, e) ==
    IF n = << >> THEN FZero
    ELSE LET len   == BigBitLen(n)
             shift == IF len > MantBits THEN len - MantBits ELSE 0
             q     == BigShr(n, shift)
             r     == BigSub(n, BigShl(q, shift))
             half  == IF shift = 0 THEN << >> ELSE BigShl(<<1>>, shift - 1)
             c     == BigCmp(r, half)
             up    == shift > 0 /\ (c = 1 \/ (c = 0 /\ BigIsOdd(q)))
             m     == IF up THEN BigAdd(q, <<1>>) ELSE q
             tz    == BigTrailingZeros(m, 1)
         IN  [neg |-> neg, m |-> BigShr(m, tz), e |-> e + shift + tz]

\* float(n) of a Python int.
FFromInt(n) == FRound(n < 0, BigFromInt(IF n < 0 THEN -n ELSE n), 0)

\* Python's true division a / b of two ints, b > 0: the float nearest to the
\* quotient.  The quotient is taken to GuardBits fractional bits and a sticky
\* bit records a non-zero remainder, so the rounding sees the exact value.
GuardBits == 4 * LimbBits + MantBits

FDivInt(a, b) ==
    LET d == BigDivSmall(BigShl(BigFromInt(IF a < 0 THEN -a ELSE a), GuardBits), b)
        n == BigAdd(BigShl(d.q, 1), IF d.r = 0 THEN << >> ELSE <<1>>)
    IN  FRound(a < 0, n, -(GuardBits + 1))

FMul(x, y) == FRound(x.neg # y.neg, BigMul(x.m, y.m), x.e + y.e)

MinOf(x, y) == IF x <= y THEN x ELSE y

\* x + y; the larger magnitude gives the sign of the difference.
FAdd(x, y) ==
    LET e  == MinOf(x.e, y.e)
        xm == BigShl(x.m, x.e - e)
        ym == BigShl(y.m, y.e - e)
        c  == BigCmp(xm, ym)
    IN  IF x.neg = y.neg THEN FRound(x.neg, BigAdd(xm, ym), e)
        ELSE IF c = 0 THEN FZero
        ELSE IF c = 1 THEN FRound(x.neg, BigSub(xm, ym), e)
        ELSE FRound(y.neg, BigSub(ym, xm), e)

\* x > 0.
FPositive(x) == x.m # << >> /\ ~x.neg

(***************************************************************************)
(* Bounds and input domains.                                               *)
(***************************************************************************)
\* Requests the model accepts in all.
MaxRequests == 3

\* Requests in flight (suspended at an await) at the same time.
MaxInFlight == 2

\* The UserCreate bodies clients send: two that share an email and differ in
\* full_name and role, and one with another email.  password is left out: its
\* salted hash is stored and never read by the handlers modelled.
Accounts ==
    {[email |-> "ann@x.org", full_name |-> "Ann", role |-> "client"],
     [email |-> "ann@x.org", full_name |-> "Ann B.", role |-> "therapist"],
     [email |-> "bob@x.org", full_name |-> "Bob", role |-> "therapist"]}

\* hourly_rate of a TherapistRegistration body: any float.
Rates == {-40, 80}

\* duration_minutes of a SessionCreate body: any int.
AiDurations == {0, 30, 120}

TherapistDurations == {50, 90}

\* cost of a SessionCreate body: a float the client must send.
ClientCosts == {0, 999}

Messages == {"hello"}

\* None, where a string is expected.
None == "None"

\* None (or an empty string) where an id is expected.
NoId == << >>

\* str(uuid.uuid4()): the k-th uuid request i draws.  uuid4 values do not
\* collide, and a client cannot name one before it is drawn.
Uuid(i, k) == <<i, k>>

\* An id no document carries.
UnknownId == Uuid(0, 0)

VARIABLES users, therapists, sessions, payments, chat_history, reqs

vars == <<users, therapists, sessions, payments, chat_history, reqs>>

\* Status of a request still in flight.
Pending == 0

NoUser == [id |-> NoId, email |-> None, full_name |-> None, role |-> None]

\* A request: the handler's position, its arguments (current_user, body), its
\* locals (cost, response), the provider calls it made and its HTTP result.
NewRequest(op, pc, user, body) ==
    [op |-> op, pc |-> pc, user |-> user, body |-> body, cost |-> FZero,
     response |-> None, calls |-> 0, status |-> Pending, detail |-> None]

InFlight == {i \in 1..Len(reqs) : reqs[i].status = Pending}

CanAccept == Len(reqs) < MaxRequests /\ Cardinality(InFlight) < MaxInFlight

\* raise HTTPException(status_code, detail), or the handler's return (200).
Respond(r, status, detail) ==
    [r EXCEPT !.pc = "done", !.status = status, !.detail = detail]

\* get_current_user: the bearer token's subject resolved to a stored user.
CurrentUsers ==
    {[id |-> u.id, email |-> u.email, full_name |-> u.full_name, role |-> u.role] :
        u \in users}

Init ==
    /\ users = {}
    /\ therapists = {}
    /\ sessions = {}
    /\ payments = {}
    /\ chat_history = {}
    /\ reqs = << >>

(***************************************************************************)
(* POST /api/auth/register                                                 *)
(***************************************************************************)
\* db.users.find_one({"email": email}) finds a document.
EmailRegistered(email) == \E u \in users : u.email = email

\* The handler up to its first await's result: the lookup by email.
register_find(email, full_name, role) ==
    /\ CanAccept
    /\ LET r == NewRequest("register", "insert_user", NoUser,
                           [email |-> email, full_name |-> full_name, role |-> role])
       IN  reqs' = Append(reqs,
                     IF EmailRegistered(email)
                     THEN Respond(r, 400, "Email already registered")
                     ELSE r)
    /\ UNCHANGED <<users, therapists, sessions, payments, chat_history>>

\* db.users.insert_one(user_doc) and the response.
register_insert(i) ==
    /\ i \in InFlight
    /\ reqs[i].op = "register"
    /\ reqs[i].pc = "insert_user"
    /\ users' = users \cup
           {[id |-> Uuid(i, 1), email |-> reqs[i].body.email,
             full_name |-> reqs[i].body.full_name, role |-> reqs[i].body.role]}
    /\ reqs' = [reqs EXCEPT ![i] = Respond(@, 200, None)]
    /\ UNCHANGED <<therapists, sessions, payments, chat_history>>

(***************************************************************************)
(* POST /api/therapist/register                                            *)
(***************************************************************************)
\* HasProfile with the lookup's result ignored.
HasProfileSkipped(user_id) == FALSE

\* db.therapists.find_one({"user_id": user_id}) finds a document.
HasProfile(user_id) == \E t \in therapists : t.user_id = user_id

\* The role check, then the lookup of an existing profile.
register_therapist_find(user, hourly_rate) ==
    /\ CanAccept
    /\ LET r == NewRequest("register_therapist", "insert_therapist", user,
                           [hourly_rate |-> FFromInt(hourly_rate)])
       IN  reqs' = Append(reqs,
                     IF user.role # "therapist"
                     THEN Respond(r, 403, "Only therapists can register as therapists")
                     ELSE IF HasProfile(user.id)
                     THEN Respond(r, 400, "Therapist profile already exists")
                     ELSE r)
    /\ UNCHANGED <<users, therapists, sessions, payments, chat_history>>

\* db.therapists.insert_one(therapist_doc) and the response.
register_therapist_insert(i) ==
    /\ i \in InFlight
    /\ reqs[i].op = "register_therapist"
    /\ reqs[i].pc = "insert_therapist"
    /\ therapists' = therapists \cup
           {[id |-> Uuid(i, 1), user_id |-> reqs[i].user.id,
             hourly_rate |-> reqs[i].body.hourly_rate, is_available |-> TRUE]}
    /\ reqs' = [reqs EXCEPT ![i] = Respond(@, 200, None)]
    /\ UNCHANGED <<users, sessions, payments, chat_history>>

(***************************************************************************)
(* POST /api/sessions/create                                               *)
(***************************************************************************)
\* The float literals of the handler: each is the float nearest to its
\* decimal value.
AiHourlyRate == FFromInt(5)

\* PlatformFeeRate with the two shares' rates swapped.
PlatformFeeRateSwapped == FDivInt(70, 100)

PlatformFeeRate == FDivInt(30, 100)

TherapistEarningsRate == FDivInt(70, 100)

\* session_data.duration_minutes / 60
SessionHours(duration_minutes) == FDivInt(duration_minutes, 60)

\* TherapistsById with an empty filter: any therapist matches.
TherapistsByIdUnfiltered(therapist_id) == therapists

\* db.therapists.find_one({"id": therapist_id}): the matches.
TherapistsById(therapist_id) == {t \in therapists : t.id = therapist_id}

\* SessionCost taken from the request body, as SessionBase.cost invites.
SessionCostFromBody(body) == body.cost

\* The cost of a session of a type that has one.
SessionCost(body) ==
    IF body.session_type = "ai"
    THEN FMul(AiHourlyRate, SessionHours(body.duration_minutes))
    ELSE LET therapist == CHOOSE t \in TherapistsById(body.therapist_id) : TRUE
         IN  FMul(therapist.hourly_rate, SessionHours(body.duration_minutes))

SessionDoc(i, r) ==
    [id |-> Uuid(i, 1), user_id |-> r.user.id, therapist_id |-> r.body.therapist_id,
     session_type |-> r.body.session_type,
     duration_minutes |-> r.body.duration_minutes, cost |-> r.cost,
     status |-> "scheduled"]

\* The handler up to the result of its first await.  An "ai" session has its
\* cost at once and the first await is db.sessions.insert_one; a "therapist"
\* session first awaits the therapist lookup, which gives the cost or a 404.
create_session_cost(user, body) ==
    /\ CanAccept
    /\ LET i == Len(reqs) + 1
           r == NewRequest("create_session", "insert_session", user, body)
           priced == [r EXCEPT !.cost = SessionCost(body)]
       IN  IF body.session_type = "ai"
           THEN /\ sessions' = sessions \cup {SessionDoc(i, priced)}
                /\ reqs' = Append(reqs, [priced EXCEPT !.pc = "insert_payment"])
           ELSE /\ sessions' = sessions
                /\ reqs' = Append(reqs,
                     IF body.session_type = "therapist"
                     THEN IF body.therapist_id = NoId
                          THEN Respond(r, 400, "Therapist ID required for therapist sessions")
                          ELSE IF TherapistsById(body.therapist_id) = {}
                          THEN Respond(r, 404, "Therapist not found")
                          ELSE priced
                     ELSE Respond(r, 400, "Invalid session type"))
    /\ UNCHANGED <<users, therapists, payments, chat_history>>

\* db.sessions.insert_one(session_doc) of a "therapist" session.
create_session_insert_session(i) ==
    /\ i \in InFlight
    /\ reqs[i].op = "create_session"
    /\ reqs[i].pc = "insert_session"
    /\ sessions' = sessions \cup {SessionDoc(i, reqs[i])}
    /\ reqs' = [reqs EXCEPT ![i].pc = "insert_payment"]
    /\ UNCHANGED <<users, therapists, payments, chat_history>>

\* PaymentDoc charging the cost of the request body, without the split.
PaymentDocBodyCost(i, r) ==
    [id |-> Uuid(i, 2), user_id |-> r.user.id, session_id |-> Uuid(i, 1),
     amount |-> r.body.cost, payment_type |-> r.body.session_type \o "_session",
     status |-> "completed"]

\* payment_doc, with the split of a therapist session's cost.
PaymentDoc(i, r) ==
    LET payment_doc ==
            [id |-> Uuid(i, 2), user_id |-> r.user.id, session_id |-> Uuid(i, 1),
             amount |-> r.cost, payment_type |-> r.body.session_type \o "_session",
             status |-> "completed"]
    IN  IF r.body.session_type = "therapist"
        THEN payment_doc @@
             [platform_fee |-> FMul(r.cost, PlatformFeeRate),
              therapist_earnings |-> FMul(r.cost, TherapistEarningsRate)]
        ELSE payment_doc

\* db.payments.insert_one(payment_doc) and the response.
create_session_insert_payment(i) ==
    /\ i \in InFlight
    /\ reqs[i].op = "create_session"
    /\ reqs[i].pc = "insert_payment"
    /\ payments' = payments \cup {PaymentDoc(i, reqs[i])}
    /\ reqs' = [reqs EXCEPT ![i] = Respond(@, 200, None)]
    /\ UNCHANGED <<users, therapists, sessions, chat_history>>

\* The request ends between its two inserts: db.payments.insert_one raises
\* (the store is unreachable) or the process is killed.  Nothing undoes the
\* session insert.
create_session_stopped(i) ==
    /\ i \in InFlight
    /\ reqs[i].op = "create_session"
    /\ reqs[i].pc = "insert_payment"
    /\ reqs' = [reqs EXCEPT ![i] = Respond(@, 500, "Internal Server Error")]
    /\ UNCHANGED <<users, therapists, sessions, payments, chat_history>>

\* The SessionCreate bodies a client sends: a therapist_id it was given by
\* GET /api/therapists, one that matches nothing, or none.
SessionBodies ==
    [session_type : {"ai"}, therapist_id : {NoId},
     duration_minutes : AiDurations, cost : {FFromInt(c) : c \in ClientCosts}]
    \cup
    [session_type : {"therapist"}, therapist_id : {t.id : t \in therapists},
     duration_minutes : TherapistDurations, cost : {FFromInt(c) : c \in ClientCosts}]
    \cup
    [session_type : {"therapist"}, therapist_id : {NoId, UnknownId},
     duration_minutes : {60}, cost : {FFromInt(c) : c \in ClientCosts}]
    \cup
    [session_type : {"group"}, therapist_id : {NoId},
     duration_minutes : {60}, cost : {FFromInt(c) : c \in ClientCosts}]

(***************************************************************************)
(* POST /api/ai-chat                                                       *)
(***************************************************************************)
\* AiSessions without the user_id of the filter.
AiSessionsOfAnyUser(store, session_id, user_id) ==
    {s \in store : s.id = session_id /\ s.session_type = "ai"}

\* db.sessions.find_one({"id": .., "user_id": .., "session_type": "ai"})
AiSessions(store, session_id, user_id) ==
    {s \in store : s.id = session_id /\ s.user_id = user_id /\ s.session_type = "ai"}

\* The lookup of the caller's AI session.
ai_chat_find(user, session_id, message) ==
    /\ CanAccept
    /\ LET r == NewRequest("ai_chat", "send_message", user,
                           [session_id |-> session_id, message |-> message])
       IN  reqs' = Append(reqs,
                     IF AiSessions(sessions, session_id, user.id) = {}
                     THEN Respond(r, 404, "AI session not found")
                     ELSE r)
    /\ UNCHANGED <<users, therapists, sessions, payments, chat_history>>

\* chat.send_message(user_message) returns the provider's text.
ai_chat_send_ok(i) ==
    /\ i \in InFlight
    /\ reqs[i].op = "ai_chat"
    /\ reqs[i].pc = "send_message"
    /\ reqs' = [reqs EXCEPT ![i].pc = "insert_history", ![i].response = "reply",
                            ![i].calls = @ + 1]
    /\ UNCHANGED <<users, therapists, sessions, payments, chat_history>>

\* chat.send_message raises: the except clause answers 500.
ai_chat_send_fail(i) ==
    /\ i \in InFlight
    /\ reqs[i].op = "ai_chat"
    /\ reqs[i].pc = "send_message"
    /\ reqs' = [reqs EXCEPT ![i] =
                   [Respond(@, 500, "AI chat error: provider") EXCEPT !.calls = @ + 1]]
    /\ UNCHANGED <<users, therapists, sessions, payments, chat_history>>

\* MessageDoc storing the user's message as the response too.
MessageDocEcho(i, r) ==
    [id |-> Uuid(i, 1), session_id |-> r.body.session_id, user_id |-> r.user.id,
     user_message |-> r.body.message, ai_response |-> r.body.message]

\* message_doc
MessageDoc(i, r) ==
    [id |-> Uuid(i, 1), session_id |-> r.body.session_id, user_id |-> r.user.id,
     user_message |-> r.body.message, ai_response |-> r.response]

\* db.chat_history.insert_one(message_doc) and the response.
ai_chat_insert(i) ==
    /\ i \in InFlight
    /\ reqs[i].op = "ai_chat"
    /\ reqs[i].pc = "insert_history"
    /\ chat_history' = chat_history \cup {MessageDoc(i, reqs[i])}
    /\ reqs' = [reqs EXCEPT ![i] = Respond(@, 200, None)]
    /\ UNCHANGED <<users, therapists, sessions, payments>>

\* The session ids a client sends: one of a stored session, or an unknown one.
SessionIds == {UnknownId} \cup {s.id : s \in sessions}

(***************************************************************************)
(* The server: any request at any time, any suspended handler resumed.     *)
(***************************************************************************)
Next ==
    \/ \E a \in Accounts : register_find(a.email, a.full_name, a.role)
    \/ \E i \in 1..Len(reqs) : register_insert(i)
    \/ \E user \in CurrentUsers, hourly_rate \in Rates :
           register_therapist_find(user, hourly_rate)
    \/ \E i \in 1..Len(reqs) : register_therapist_insert(i)
    \/ \E user \in CurrentUsers, body \in SessionBodies :
           create_session_cost(user, body)
    \/ \E i \in 1..Len(reqs) : create_session_insert_session(i)
    \/ \E i \in 1..Len(reqs) : create_session_insert_payment(i)
    \/ \E i \in 1..Len(reqs) : create_session_stopped(i)
    \/ \E user \in CurrentUsers, session_id \in SessionIds, message \in Messages :
           ai_chat_find(user, session_id, message)
    \/ \E i \in 1..Len(reqs) : ai_chat_send_ok(i)
    \/ \E i \in 1..Len(reqs) : ai_chat_send_fail(i)
    \/ \E i \in 1..Len(reqs) : ai_chat_insert(i)

Spec == Init /\ [][Next]_vars

(***************************************************************************)
(* The chat endpoint on a store that earlier requests filled: ann and bob  *)
(* registered, bob registered as a therapist (three requests of Spec; see  *)
(* ChatStoreReached).  Sessions are created and chatted on from there.     *)
(***************************************************************************)
Ann == [id |-> Uuid(-1, 1), email |-> "ann@x.org", full_name |-> "Ann", role |-> "client"]

Bob == [id |-> Uuid(-2, 1), email |-> "bob@x.org", full_name |-> "Bob", role |-> "therapist"]

BobProfile ==
    [id |-> Uuid(-3, 1), user_id |-> Bob.id, hourly_rate |-> FFromInt(80),
     is_available |-> TRUE]

InitChat ==
    /\ users = {Ann, Bob}
    /\ therapists = {BobProfile}
    /\ sessions = {}
    /\ payments = {}
    /\ chat_history = {}
    /\ reqs = << >>

ChatSessionBodies ==
    {[session_type |-> "ai", therapist_id |-> NoId, duration_minutes |-> 30,
      cost |-> FFromInt(999)],
     [session_type |-> "therapist", therapist_id |-> BobProfile.id,
      duration_minutes |-> 90, cost |-> FFromInt(999)]}

NextChat ==
    \/ \E user \in CurrentUsers, body \in ChatSessionBodies :
           create_session_cost(user, body)
    \/ \E i \in 1..Len(reqs) : create_session_insert_session(i)
    \/ \E i \in 1..Len(reqs) : create_session_insert_payment(i)
    \/ \E i \in 1..Len(reqs) : create_session_stopped(i)
    \/ \E user \in CurrentUsers, session_id \in SessionIds, message \in Messages :
           ai_chat_find(user, session_id, message)
    \/ \E i \in 1..Len(reqs) : ai_chat_send_ok(i)
    \/ \E i \in 1..Len(reqs) : ai_chat_send_fail(i)
    \/ \E i \in 1..Len(reqs) : ai_chat_insert(i)

SpecChat == InitChat /\ [][NextChat]_vars

\* Spec reaches the store SpecChat starts from, up to the uuids drawn.
ChatStoreReached ==
    /\ {[email |-> u.email, full_name |-> u.full_name, role |-> u.role] : u \in users}
         = {[email |-> u.email, full_name |-> u.full_name, role |-> u.role] :
               u \in {Ann, Bob}}
    /\ Cardinality(users) = 2
    /\ \E t \in therapists :
         /\ therapists = {t}
         /\ t.hourly_rate = BobProfile.hourly_rate
         /\ \E u \in users : u.id = t.user_id /\ u.email = Bob.email
    /\ sessions = {} /\ payments = {} /\ chat_history = {}
    /\ InFlight = {}

(***************************************************************************)
(* Exact arithmetic for the properties: [neg, m, e] read as the rational   *)
(* (-1)^neg * m * 2^e with m of any size, never rounded.                   *)
(***************************************************************************)
AbsInt(k) == IF k < 0 THEN -k ELSE k

\* x * k for an integer k.
DyMulInt(x, k) ==
    [neg |-> (x.neg # (k < 0)), m |-> BigMul(x.m, BigFromInt(AbsInt(k))), e |-> x.e]

DyFromInt(k) == [neg |-> k < 0, m |-> BigFromInt(AbsInt(k)), e |-> 0]

\* |x| as a natural number of units 2^e, e at most x.e.
DyUnits(x, e) == BigShl(x.m, x.e - e)

\* |x - y|.
DyAbsDiff(x, y) ==
    LET e  == MinOf(x.e, y.e)
        xm == DyUnits(x, e)
        ym == DyUnits(y, e)
    IN  [neg |-> FALSE, e |-> e,
         m |-> IF x.neg # y.neg THEN BigAdd(xm, ym)
               ELSE IF BigCmp(xm, ym) >= 0 THEN BigSub(xm, ym) ELSE BigSub(ym, xm)]

\* x + y.
DySum(x, y) ==
    LET d == DyAbsDiff(x, [y EXCEPT !.neg = ~y.neg])
        e == MinOf(x.e, y.e)
    IN  [d EXCEPT !.neg = IF BigCmp(DyUnits(x, e), DyUnits(y, e)) >= 0
                          THEN x.neg ELSE y.neg]

\* |x| <= |y|.
DyAbsLeq(x, y) ==
    LET e == MinOf(x.e, y.e) IN BigCmp(DyUnits(x, e), DyUnits(y, e)) <= 0

\* x and y agree to a relative error of 2^-51: the rounding of at most two
\* float operations (2^-53 each) and of the literals 0.30 and 0.70.
RoundingBits == MantBits - 2

WithinRounding(x, y) ==
    LET d == DyAbsDiff(x, y) IN DyAbsLeq([d EXCEPT !.e = @ + RoundingBits], y)

\* The float of a small literal: units * 2^e with units odd.
Float(units, e) == [neg |-> FALSE, m |-> <<units>>, e |-> e]

\* The request that drew a document's uuid.
RequestOf(doc) == reqs[doc.id[1]]

PaymentsOf(session_id) == {p \in payments : p.session_id = session_id}

(***************************************************************************)
(* Properties.                                                             *)
(***************************************************************************)
\* C1: no two stored users have the same email, under any interleaving of
\* register requests; a register whose lookup finds the email stored answers
\* 400 and inserts no user.
C1_EmailsUnique ==
    /\ \A u, v \in users : u.email = v.email => u = v
    /\ \A i \in 1..Len(reqs) :
         (reqs[i].op = "register" /\ reqs[i].status = 400)
           => \A u \in users : u.id[1] # i

\* C2: the therapists collection holds at most one profile per user_id, under
\* any interleaving of register_therapist requests.
C2_OneProfilePerUser ==
    \A s, t \in therapists : s.user_id = t.user_id => s = t

\* C3: create_session is the only operation that writes twice, the session
\* first and the payment second.  Every payment names a stored session with
\* the same user_id and amount = that session's cost; no session has two
\* payments; a session without a payment belongs to a create_session that is
\* between its two inserts or was stopped there; a create_session that answered
\* 200 left exactly one payment for its session.
C3_SessionPaymentPairing ==
    /\ \A p \in payments :
         \E s \in sessions :
            s.id = p.session_id /\ s.user_id = p.user_id /\ p.amount = s.cost
    /\ \A s \in sessions :
         /\ Cardinality(PaymentsOf(s.id)) <= 1
         /\ PaymentsOf(s.id) = {} =>
              /\ RequestOf(s).op = "create_session"
              /\ \/ RequestOf(s).pc = "insert_payment"
                 \/ RequestOf(s).status = 500
    /\ \A i \in 1..Len(reqs) :
         LET written ==
               Cardinality({u \in users : u.id[1] = i})
                 + Cardinality({t \in therapists : t.id[1] = i})
                 + Cardinality({x \in sessions : x.id[1] = i})
                 + Cardinality({p \in payments : p.id[1] = i})
                 + Cardinality({c \in chat_history : c.id[1] = i})
         IN  /\ reqs[i].op # "create_session" => written <= 1
             /\ reqs[i].op = "create_session" =>
                  /\ written <= 2
                  /\ \A p \in payments : p.id[1] = i => p.session_id = Uuid(i, 1)
             /\ (reqs[i].op = "create_session" /\ reqs[i].status = 200) =>
                  /\ Cardinality(PaymentsOf(Uuid(i, 1))) = 1
                  /\ \E x \in sessions : x.id = Uuid(i, 1)

\* A create_session answered 200 with its session and payment stored, and
\* another was stopped between its inserts and left a session without payment.
C3_Witness ==
    \E i, j \in 1..Len(reqs) :
       /\ reqs[i].op = "create_session" /\ reqs[i].status = 200
       /\ Cardinality(PaymentsOf(Uuid(i, 1))) = 1
       /\ reqs[j].op = "create_session" /\ reqs[j].status = 500
       /\ PaymentsOf(Uuid(j, 1)) = {}
       /\ \E x \in sessions : x.id = Uuid(j, 1)

\* C4: the stored cost of a session is 5.0 * duration_minutes / 60 for "ai"
\* (2.5 for 30 minutes, 10.0 for 120) and hourly_rate * duration_minutes / 60
\* of the named therapist's stored profile for "therapist", as floats compute
\* it (to the rounding of the division and the product); the cost of the
\* request body is in neither the session nor the payment.
C4_CostFromTypeDurationRate ==
    /\ \A s \in sessions :
         LET rate ==
               IF s.session_type = "ai" THEN DyFromInt(5)
               ELSE (CHOOSE t \in therapists : t.id = s.therapist_id).hourly_rate
         IN  /\ s.session_type \in {"ai", "therapist"}
             /\ s.session_type = "therapist" =>
                  \E t \in therapists : t.id = s.therapist_id
             /\ WithinRounding(DyMulInt(s.cost, 60), DyMulInt(rate, s.duration_minutes))
             /\ (s.session_type = "ai" /\ s.duration_minutes = 30) => s.cost = Float(5, -1)
             /\ (s.session_type = "ai" /\ s.duration_minutes = 120) => s.cost = Float(5, 1)
    /\ \A p \in payments : \A s \in sessions : s.id = p.session_id => p.amount = s.cost

\* An "ai" session of 30 minutes is stored at 2.5 and paid at 2.5 although its
\* request carried another cost.
C4_Witness ==
    \E s \in sessions :
       /\ s.session_type = "ai" /\ s.duration_minutes = 30
       /\ s.cost = Float(5, -1)
       /\ RequestOf(s).body.cost # s.cost
       /\ \E p \in payments : p.session_id = s.id /\ p.amount = s.cost

HasSplit(p) == "platform_fee" \in DOMAIN p /\ "therapist_earnings" \in DOMAIN p

NoSplit(p) == "platform_fee" \notin DOMAIN p /\ "therapist_earnings" \notin DOMAIN p

\* The session a payment was made for.
SessionOf(p) == CHOOSE s \in sessions : s.id = p.session_id

\* C5 as stated: every payment of a therapist session has platform_fee = 30% of
\* amount, therapist_earnings = 70% of amount and platform_fee +
\* therapist_earnings = amount exactly; a payment of an "ai" session carries
\* neither.  The two shares are read to the rounding of the product, the sum as
\* Python's platform_fee + therapist_earnings == amount, and only payments of a
\* positive amount (a positive hourly_rate and duration) are held to it.
C5_SplitSumsExactly ==
    \A p \in payments :
       IF SessionOf(p).session_type = "therapist"
       THEN FPositive(p.amount) =>
            /\ HasSplit(p)
            /\ WithinRounding(DyMulInt(p.platform_fee, 10), DyMulInt(p.amount, 3))
            /\ WithinRounding(DyMulInt(p.therapist_earnings, 10), DyMulInt(p.amount, 7))
            /\ FAdd(p.platform_fee, p.therapist_earnings) = p.amount
       ELSE NoSplit(p)

\* C5 as amended: platform_fee and therapist_earnings are 30% and 70% of amount,
\* and their sum is amount, to floating-point rounding (a relative error of at
\* most 2^-51); hourly_rate 80 and 90 minutes give exactly 120.0, 36.0 and 84.0;
\* a payment of an "ai" session carries neither.
C5_SplitWithinRounding ==
    \A p \in payments :
       IF SessionOf(p).session_type = "therapist"
       THEN /\ HasSplit(p)
            /\ WithinRounding(DyMulInt(p.platform_fee, 10), DyMulInt(p.amount, 3))
            /\ WithinRounding(DyMulInt(p.therapist_earnings, 10), DyMulInt(p.amount, 7))
            /\ WithinRounding(DySum(p.platform_fee, p.therapist_earnings), p.amount)
            /\ \A t \in therapists :
                 (/\ t.id = SessionOf(p).therapist_id
                  /\ t.hourly_rate = Float(5, 4)
                  /\ SessionOf(p).duration_minutes = 90) =>
                    /\ p.amount = Float(15, 3)
                    /\ p.platform_fee = Float(9, 2)
                    /\ p.therapist_earnings = Float(21, 2)
       ELSE NoSplit(p)

\* A therapist at 80 an hour was booked for 50 minutes: the payment's shares do
\* not add up to its amount.
C5_Witness ==
    \E p \in payments :
       /\ SessionOf(p).session_type = "therapist"
       /\ SessionOf(p).duration_minutes = 50
       /\ HasSplit(p)
       /\ FAdd(p.platform_fee, p.therapist_earnings) # p.amount
       /\ \E t \in therapists :
            t.id = SessionOf(p).therapist_id /\ t.hourly_rate = Float(5, 4)

\* C6: create_session answers 400 for a "therapist" session without
\* therapist_id, 404 for one whose therapist_id matches no stored profile and
\* 400 for any other session_type than "ai" and "therapist"; none of these
\* requests writes a session or a payment.
C6_CreateSessionRejects ==
    \A i \in 1..Len(reqs) :
       LET r == reqs[i]
           missing == r.body.session_type = "therapist" /\ r.body.therapist_id = NoId
           unknown == /\ r.body.session_type = "therapist"
                      /\ r.body.therapist_id # NoId
                      /\ ~\E t \in therapists : t.id = r.body.therapist_id
           invalid == r.body.session_type \notin {"ai", "therapist"}
       IN  r.op = "create_session" =>
             /\ missing => r.status = 400
             /\ unknown => r.status = 404
             /\ invalid => r.status = 400
             /\ r.status \in {400, 404} <=> (missing \/ unknown \/ invalid)
             /\ (missing \/ unknown \/ invalid) =>
                  /\ ~\E s \in sessions : s.id[1] = i
                  /\ ~\E p \in payments : p.id[1] = i

\* A therapist is registered, and a request naming an unknown therapist got 404
\* and wrote nothing.
C6_Witness ==
    /\ therapists # {}
    /\ \E i \in 1..Len(reqs) :
         /\ reqs[i].op = "create_session"
         /\ reqs[i].body.therapist_id = UnknownId
         /\ reqs[i].status = 404
         /\ ~\E s \in sessions : s.id[1] = i

\* The newest request, when a step accepted one.
Accepted == Len(reqs') = Len(reqs) + 1

Newest == reqs'[Len(reqs')]

\* The request a step completed with a 200, if it was in flight before.
Answered200(i) == i <= Len(reqs) /\ reqs[i].status = Pending /\ reqs'[i].status = 200

\* C7: register_therapist by a user whose role is not "therapist" answers 403,
\* by a therapist user who already has a profile 400, and neither changes the
\* therapists collection; the request of a therapist user without a profile
\* adds exactly one profile, with is_available = TRUE and the caller's user_id.
C7_TherapistRegistrationGuard ==
    [][/\ (Accepted /\ Newest.op = "register_therapist") =>
            LET caller == Newest.user
                profiled == \E t \in therapists : t.user_id = caller.id
            IN  /\ caller.role # "therapist" =>
                     Newest.status = 403 /\ therapists' = therapists
                /\ (caller.role = "therapist" /\ profiled) =>
                     Newest.status = 400 /\ therapists' = therapists
                /\ (caller.role = "therapist" /\ ~profiled) =>
                     Newest.status = Pending /\ therapists' = therapists
       /\ \A i \in 1..Len(reqs) :
            (reqs[i].op = "register_therapist" /\ Answered200(i)) =>
               \E t \in therapists' \ therapists :
                  /\ therapists' = therapists \cup {t}
                  /\ t.is_available = TRUE
                  /\ t.user_id = reqs[i].user.id
                  /\ t.hourly_rate = reqs[i].body.hourly_rate
       /\ therapists' # therapists =>
            \E i \in 1..Len(reqs) :
               reqs[i].op = "register_therapist" /\ Answered200(i)
      ]_vars

\* A therapist registered a profile, asked again and got 400; a client asked
\* and got 403; one profile is stored.
C7_Witness ==
    \E i, j \in 1..Len(reqs) :
       /\ reqs[i].op = "register_therapist" /\ reqs[i].status = 200
       /\ reqs[j].op = "register_therapist" /\ reqs[j].status = 400
       /\ reqs[j].user = reqs[i].user
       /\ Cardinality(therapists) = 1

\* The result of an ai_chat request as its caller sees it.
ChatOutcome(r) == <<r.status, r.detail, r.response>>

\* The sessions that are not the caller's.
OthersSessions(user_id) == {s \in sessions : s.user_id # user_id}

\* C8: ai_chat answers 404 with one detail, calls no provider and stores no
\* history entry when the session_id matches no session, a session of another
\* user, or the caller's own session of another type than "ai"; the lookup of
\* a caller finds the same with and without the other users' sessions.
C8_NoExistenceLeak ==
    /\ \A i \in 1..Len(reqs) :
         LET r == reqs[i]
             none   == ~\E s \in sessions : s.id = r.body.session_id
             others == \E s \in sessions :
                          s.id = r.body.session_id /\ s.user_id # r.user.id
             notai  == \E s \in sessions :
                          /\ s.id = r.body.session_id
                          /\ s.user_id = r.user.id
                          /\ s.session_type # "ai"
         IN  (r.op = "ai_chat" /\ (none \/ others \/ notai)) =>
                /\ ChatOutcome(r) = <<404, "AI session not found", None>>
                /\ r.calls = 0
                /\ ~\E c \in chat_history : c.id[1] = i
    /\ \A u \in users : \A session_id \in SessionIds :
         AiSessions(sessions, session_id, u.id)
           = AiSessions(sessions \ OthersSessions(u.id), session_id, u.id)

\* One caller asked for a session of another user and for a session that does
\* not exist, and got the same answer twice.
C8_Witness ==
    \E i, j \in 1..Len(reqs) :
       /\ reqs[i].op = "ai_chat" /\ reqs[j].op = "ai_chat"
       /\ reqs[i].user = reqs[j].user
       /\ \E s \in sessions :
            /\ s.id = reqs[i].body.session_id
            /\ s.user_id # reqs[i].user.id
            /\ s.session_type = "ai"
       /\ reqs[j].body.session_id = UnknownId
       /\ reqs[i].status = 404
       /\ ChatOutcome(reqs[i]) = ChatOutcome(reqs[j])

\* C9: every stored session has duration_minutes > 0 and every stored
\* therapist profile has hourly_rate > 0, so no stored cost or payment amount
\* is zero or negative.
C9_PositiveDurationsAndRates ==
    /\ \A s \in sessions : s.duration_minutes > 0 /\ FPositive(s.cost)
    /\ \A t \in therapists : FPositive(t.hourly_rate)
    /\ \A p \in payments : FPositive(p.amount)

\* C10: an ai_chat on the caller's own "ai" session calls the provider once;
\* a provider success is followed by one chat_history entry with the request's
\* session_id, user_id, message and the response; a provider failure answers
\* 500 and stores nothing; every entry names a stored "ai" session of the
\* entry's user; no step changes or removes an entry.
C10_Entries ==
    /\ \A i \in 1..Len(reqs) :
         LET r == reqs[i]
             entries == {c \in chat_history : c.id[1] = i}
         IN  r.op = "ai_chat" =>
               /\ r.calls <= 1
               /\ r.pc = "send_message" => r.calls = 0 /\ entries = {}
               /\ r.pc = "insert_history" => r.calls = 1 /\ entries = {}
               /\ r.status = 200 =>
                    /\ r.calls = 1
                    /\ entries = {[id |-> Uuid(i, 1), session_id |-> r.body.session_id,
                                   user_id |-> r.user.id,
                                   user_message |-> r.body.message,
                                   ai_response |-> r.response]}
                    /\ r.response # None
               /\ r.status = 500 => r.calls = 1 /\ entries = {}
               /\ r.status \in {Pending, 200, 404, 500}
    /\ \A c \in chat_history :
         /\ \E s \in sessions :
              s.id = c.session_id /\ s.user_id = c.user_id /\ s.session_type = "ai"
         /\ RequestOf(c).op = "ai_chat"

\* C10: chat_history is append-only and tied to the provider's outcome: every
\* state satisfies C10_Entries, and no step removes or rewrites an entry.
C10_ChatHistoryAppendOnly ==
    []C10_Entries /\ [][chat_history \subseteq chat_history']_vars

\* One chat was answered and stored, another failed at the provider and stored
\* nothing.
C10_Witness ==
    \E i, j \in 1..Len(reqs) :
       /\ reqs[i].op = "ai_chat" /\ reqs[i].status = 200
       /\ \E c \in chat_history : c.id[1] = i
       /\ reqs[j].op = "ai_chat" /\ reqs[j].status = 500 /\ reqs[j].calls = 1
       /\ ~\E c \in chat_history : c.id[1] = j

====
